---- MODULE Spec2Model ----
(***************************************************************************)
(* Model of the resilient remote-call guard of AuditFlow:                  *)
(* partB_meta_auditor/partA_document_agent/src/api_client.py.              *)
(* Retry loop with exponential backoff around a Transport (requests.post)  *)
(* and a per-endpoint circuit breaker kept in the module global            *)
(* _circuit_state.                                                         *)
(*                                                                         *)
(* Time is a discrete clock `now` (the value time.time() returns).  The    *)
(* field failure_window_start of a breaker state (lines 376, 387) is       *)
(* written and never read by any code; it is left out of the records.      *)
(***************************************************************************)
EXTENDS Integers, Sequences, FiniteSets, TLC

\* ---------------------------------------------------------------- bounds
MaxTime == 6            \* the clock runs over 0..MaxTime in the call-level runs
MaxBreakerTime == 2     \* and over 0..MaxBreakerTime when the breaker is driven directly
MaxAttempts == 3        \* retry.max_attempts is drawn from 0..MaxAttempts
MaxThreshold == 3       \* circuit_breaker.failure_threshold from 1..MaxThreshold
MaxResetTimeout == 2    \* circuit_breaker.reset_timeout from 1..MaxResetTimeout
MaxFailureCount == 2    \* direct record_result calls stop growing failure_count here
MaxConcTime == 3        \* the clock runs over 0..MaxConcTime in the concurrent runs
MaxConcAttempts == 2    \* retry.max_attempts from 1..MaxConcAttempts in the concurrent runs
MaxBackoffAttempt == 6  \* _calculate_backoff is applied to attempts 1..MaxBackoffAttempt
MaxIsoTime == 2         \* the clock runs over 0..MaxIsoTime in the runs with two endpoints
MaxIsoAttempts == 2     \* retry.max_attempts from 1..MaxIsoAttempts in those runs
MaxRaceTime == 1        \* the clock runs over 0..MaxRaceTime in the runs with racing records
MaxRaceCount == 2       \* racing failure records are started only below this count
MaxLiveTime == 3        \* the clock runs over 0..MaxLiveTime in the runs with fairness

\* ------------------------------------------------------- program constants
None == -1              \* Python None in a timestamp field

Endpoints == {"E1", "E2"}
DefaultEndpoint == "E1" \* external_api.endpoint of the loaded configuration
Callers == {"c1", "c2"}
MainCaller == "c1"      \* the thread of main.py, the only caller of a sequential run

\* What one Transport invocation (requests.post + raise_for_status) can give:
\* a non-error response, an HTTP error-status response, or an exception
\* raised by requests.post itself.
TransportResults == {"ok", "http_error", "timeout", "conn_error"}
Responses == {"ok", "http_error"}

VARIABLES
    now,             \* time.time()
    cfg,             \* the ExternalAPIConfig in force (retry + circuit_breaker)
    circuit_state,   \* _circuit_state: endpoint -> breaker state dict
    pc,              \* caller -> position in _call_httpbin_with_retry
    endpoint,        \* caller -> config.endpoint of its current call
    attempt,         \* caller -> loop variable `attempt` (= total_attempts)
    last_error,      \* caller -> last_error
    wake_time,       \* caller -> end of the current time.sleep(delay)
    outcome,         \* caller -> dict returned by its last call
    vc_log,          \* caller -> vc_tracker steps appended by its current call
    results,         \* caller -> what each requests.post of its current call gave
    sleeps,          \* caller -> time.sleep invocations in its current call
    success_records, \* caller -> _update_circuit_breaker(.., True, ..) calls
    trial,           \* caller -> its breaker check moved open -> half_open
    streak,          \* endpoint -> consecutive exhausted-retries outcomes (capped)
    last_op,         \* the last direct call of a module function: a breaker
                     \* operation and the phase it found, or a backoff
                     \* computation and the delay it returned
    upd,             \* thread -> its position in _update_circuit_breaker and
                     \* the locals of that call (endpoint, now, loaded count)
    tainted          \* endpoint -> a success or reset ran while a failure
                     \* record of another thread was under way

vars == <<now, cfg, circuit_state, pc, endpoint, attempt, last_error, wake_time,
          outcome, vc_log, results, sleeps, success_records, trial, streak,
          last_op, upd, tainted>>

racevars == <<upd, tainted>>

callvars == <<pc, endpoint, attempt, last_error, wake_time, outcome, vc_log,
              results, sleeps, success_records, trial>>

\* ------------------------------------------------------------ pure helpers
Min(a, b) == IF a <= b THEN a ELSE b
Max(a, b) == IF a >= b THEN a ELSE b

RECURSIVE Pow2(_)
Pow2(n) == IF n <= 0 THEN 1 ELSE 2 * Pow2(n - 1)

\* one breaker state shared by all endpoints instead of one per endpoint
PutShared(cs, e, st) == [x \in (DOMAIN cs) \cup {e} |-> st]

\* dict assignment _circuit_state[e] = st
Put(cs, e, st) == [x \in (DOMAIN cs) \cup {e} |-> IF x = e THEN st ELSE cs[x]]

\* a delay that is never capped at the maximum
UncappedDelay(att, retry) == retry.backoff_seconds * Pow2(att - 1)

\* a delay whose exponent is the attempt number itself
CappedDelayOffByOne(att, retry) ==
    Min(retry.backoff_seconds * Pow2(att), retry.max_backoff_seconds)

\* _calculate_backoff, lines 310-314: exponential delay capped at the maximum
CappedDelay(att, retry) ==
    Min(retry.backoff_seconds * Pow2(att - 1), retry.max_backoff_seconds)

\* line 318: jitter_range = delay * jitter  (jitter held in percent)
JitterRange(att, retry) == (CappedDelay(att, retry) * retry.jitter) \div 100

\* _calculate_backoff(attempt, retry_config) with u the value drawn by
\* random.uniform(-jitter_range, jitter_range) (ignored when jitter = 0)
CalculateBackoff(att, retry, u) ==
    LET delay == CappedDelay(att, retry)
    IN  IF retry.jitter > 0 THEN Max(0, delay + u) ELSE Max(0, delay)

\* the values random.uniform can produce on the integer clock
UniformChoices(att, retry) ==
    IF retry.jitter > 0
    THEN (0 - JitterRange(att, retry)) .. JitterRange(att, retry)
    ELSE {0}

\* the dict created at lines 373-379
NewState == [state |-> "closed", failure_count |-> 0,
             last_failure_time |-> None, next_attempt_time |-> None]

\* a cooldown check that admits only strictly after next_attempt_time
CooldownExpiredStrict(st, t) == t > st.next_attempt_time

\* a cooldown check with the comparison the wrong way round
CooldownExpiredInverted(st, t) == t <= st.next_attempt_time

\* line 347: now >= state.get("next_attempt_time", 0)
CooldownExpired(st, t) == t >= st.next_attempt_time

\* a check that also turns callers away while the breaker is half-open
IsCircuitOpenHalfOpenBlocks(cs, e, t) ==
    IF e \notin DOMAIN cs
    THEN [open |-> FALSE, cs |-> cs]
    ELSE IF cs[e].state = "open"
         THEN IF CooldownExpired(cs[e], t)
              THEN [open |-> FALSE,
                    cs |-> Put(cs, e, [cs[e] EXCEPT !.state = "half_open",
                                                    !.last_failure_time = t])]
              ELSE [open |-> TRUE, cs |-> cs]
         ELSE [open |-> cs[e].state = "half_open", cs |-> cs]

\* a check that moves to half-open whenever the deadline has passed, without
\* looking at the phase
IsCircuitOpenAnyPhase(cs, e, t) ==
    IF e \notin DOMAIN cs
    THEN [open |-> FALSE, cs |-> cs]
    ELSE IF CooldownExpired(cs[e], t)
         THEN [open |-> FALSE,
               cs |-> Put(cs, e, [cs[e] EXCEPT !.state = "half_open",
                                               !.last_failure_time = t])]
         ELSE [open |-> cs[e].state = "open", cs |-> cs]

\* _is_circuit_open(endpoint, cb_config) at time t:
\* the returned boolean and the _circuit_state it leaves
IsCircuitOpen(cs, e, t) ==
    IF e \notin DOMAIN cs
    THEN [open |-> FALSE, cs |-> cs]
    ELSE IF cs[e].state = "open"
         THEN IF CooldownExpired(cs[e], t)
              THEN [open |-> FALSE,
                    cs |-> Put(cs, e, [cs[e] EXCEPT !.state = "half_open",
                                                    !.last_failure_time = t])]
              ELSE [open |-> TRUE, cs |-> cs]
         ELSE [open |-> FALSE, cs |-> cs]

\* a threshold check that trips one failure late
ThresholdReachedStrict(fc, cb) == fc > cb.failure_threshold

\* line 396: state["failure_count"] >= cb_config.failure_threshold
ThresholdReached(fc, cb) == fc >= cb.failure_threshold

\* a success branch that zeroes the count and leaves the phase as it is
RecordSuccessKeepPhase(st) == [st EXCEPT !.failure_count = 0]

\* lines 384-387: the success branch of _update_circuit_breaker
RecordSuccess(st) == [st EXCEPT !.state = "closed", !.failure_count = 0]

\* a failure branch whose half-open reopening keeps the old next_attempt_time
RecordFailureStaleDeadline(st, cb, t) ==
    LET fc == st.failure_count + 1
        s1 == [st EXCEPT !.failure_count = fc, !.last_failure_time = t]
    IN  IF st.state = "closed"
        THEN IF ThresholdReached(fc, cb)
             THEN [s1 EXCEPT !.state = "open",
                             !.next_attempt_time = t + cb.reset_timeout]
             ELSE s1
        ELSE IF st.state = "half_open"
             THEN [s1 EXCEPT !.state = "open"]
             ELSE s1

\* a failure branch that starts the count afresh once failure_window has
\* gone by since the failure before
RecordFailureWindowDecay(st, cb, t) ==
    LET fc == IF /\ st.last_failure_time # None
                 /\ t - st.last_failure_time > cb.failure_window
              THEN 1 ELSE st.failure_count + 1
        s1 == [st EXCEPT !.failure_count = fc, !.last_failure_time = t]
    IN  IF st.state = "closed"
        THEN IF ThresholdReached(fc, cb)
             THEN [s1 EXCEPT !.state = "open",
                             !.next_attempt_time = t + cb.reset_timeout]
             ELSE s1
        ELSE IF st.state = "half_open"
             THEN [s1 EXCEPT !.state = "open",
                             !.next_attempt_time = t + cb.reset_timeout]
             ELSE s1

\* lines 389-402: the failure branch of _update_circuit_breaker
RecordFailure(st, cb, t) ==
    LET fc == st.failure_count + 1
        s1 == [st EXCEPT !.failure_count = fc, !.last_failure_time = t]
    IN  IF st.state = "closed"
        THEN IF ThresholdReached(fc, cb)
             THEN [s1 EXCEPT !.state = "open",
                             !.next_attempt_time = t + cb.reset_timeout]
             ELSE s1
        ELSE IF st.state = "half_open"
             THEN [s1 EXCEPT !.state = "open",
                             !.next_attempt_time = t + cb.reset_timeout]
             ELSE s1

\* _update_circuit_breaker(endpoint, success, cb_config) at time t
UpdateCircuitBreaker(cs, e, success, cb, t) ==
    LET st == IF e \in DOMAIN cs THEN cs[e] ELSE NewState
    IN  Put(cs, e, IF success THEN RecordSuccess(st) ELSE RecordFailure(st, cb, t))

\* a reset that drops the endpoint's entry from _circuit_state
ResetCircuitBreakerDelete(cs, e) == [x \in DOMAIN cs \ {e} |-> cs[x]]

\* a reset that zeroes the count and leaves the phase as it is
ResetCircuitBreakerKeepPhase(cs, e) ==
    IF e \in DOMAIN cs
    THEN Put(cs, e, [cs[e] EXCEPT !.failure_count = 0])
    ELSE cs

\* reset_circuit_breaker(endpoint): the _circuit_state it leaves
ResetCircuitBreaker(cs, e) ==
    IF e \in DOMAIN cs
    THEN Put(cs, e, [cs[e] EXCEPT !.state = "closed", !.failure_count = 0])
    ELSE cs

\* reset_circuit_breaker(endpoint): the boolean it returns
ResetReturns(cs, e) == e \in DOMAIN cs

\* the vc_step meta and the dict returned by _log_api_failure
FailureEvent(error, attempts) ==
    [success |-> FALSE, attempts |-> attempts, error |-> error]
LogApiFailure(error, attempts) ==
    [success |-> FALSE, error |-> error, attempts |-> attempts]

\* the vc_step meta of the success path, lines 167-173
SuccessEvent(attempts) == [success |-> TRUE, attempts |-> attempts]

\* a result that reports the attempt by its 0-based index
SuccessResultZeroBased(attempts) ==
    [success |-> TRUE, total_attempts |-> attempts - 1]

\* the result dict of the success path, lines 156-164
SuccessResult(attempts) == [success |-> TRUE, total_attempts |-> attempts]

NoOutcome == [success |-> FALSE, error |-> "not_called", attempts |-> 0]

\* str(last_error) at line 207
Str(err) == IF err = "none" THEN "None" ELSE err

\* a tracker that keeps the steps of successful calls only
VcStepSuccessOnly(log, ev) == IF ev.success THEN Append(log, ev) ELSE log

\* vc_tracker.vc_step: the step is appended to the log
VcStep(log, ev) == Append(log, ev)

\* the exception a Transport result raises inside the try block: requests.post
\* raises Timeout or ConnectionError, raise_for_status raises HTTPError
Raised(r) == IF r = "ok" THEN "none" ELSE r

\* a handler that catches timeouts only
CaughtTimeoutOnly(exc) == exc = "timeout"

\* a handler that lets the HTTPError of raise_for_status escape
CaughtTransportOnly(exc) == exc \in {"timeout", "conn_error"}

\* except (requests.exceptions.Timeout, requests.exceptions.RequestException):
\* RequestException is the base class of Timeout, ConnectionError and HTTPError
Caught(exc) == exc \in {"timeout", "conn_error", "http_error"}

\* a loop that also waits after its last attempt
AttemptsLeftInclusive(a, retry) == a <= retry.max_attempts

\* line 196: attempt < retry_config.max_attempts
AttemptsLeft(a, retry) == a < retry.max_attempts

\* a loop that records a failure with the breaker at every failed attempt
AttemptRecordEveryFailure(cs, e, r, cb, t) ==
    UpdateCircuitBreaker(cs, e, r \in Responses, cb, t)

\* what one iteration of the retry loop records with the breaker: line 140 is
\* reached only when requests.post returned a response; an exception raised
\* by requests.post goes to the handler at line 191, which records nothing
AttemptRecord(cs, e, r, cb, t) ==
    IF r \in Responses THEN UpdateCircuitBreaker(cs, e, TRUE, cb, t) ELSE cs

InFlight(c) == pc[c] \in {"post", "sleep", "exhausted"}
PhaseOf(cs, e) == IF e \in DOMAIN cs THEN cs[e].state ELSE "absent"
CountOf(cs, e) == IF e \in DOMAIN cs THEN cs[e].failure_count ELSE 0
TransportCalls(c) == Len(results[c])

\* ---------------------------------------------------------- configuration
\* config.py builds the configuration without validating any field
\* (lines 233-267); one configuration is in force for the whole run.
RetryConfigs ==
    [max_attempts : 0 .. MaxAttempts, backoff_seconds : {1},
     max_backoff_seconds : {1, 2}, jitter : {0}]
CircuitBreakerConfigs ==
    [failure_threshold : 1 .. MaxThreshold, failure_window : {1},
     reset_timeout : 1 .. MaxResetTimeout]

NoOp == [op |-> "none", endpoint |-> "E1", prior |-> "absent"]

\* a thread that is not inside _update_circuit_breaker
NoUpdate == [pc |-> "idle", endpoint |-> "E1", t |-> 0, count |-> 0]

Init ==
    /\ now = 0
    /\ cfg \in [endpoint : {DefaultEndpoint}, retry : RetryConfigs,
                circuit_breaker : CircuitBreakerConfigs]
    /\ circuit_state = << >>
    /\ pc = [c \in Callers |-> "idle"]
    /\ endpoint = [c \in Callers |-> "E1"]
    /\ attempt = [c \in Callers |-> 0]
    /\ last_error = [c \in Callers |-> "none"]
    /\ wake_time = [c \in Callers |-> 0]
    /\ outcome = [c \in Callers |-> NoOutcome]
    /\ vc_log = [c \in Callers |-> << >>]
    /\ results = [c \in Callers |-> << >>]
    /\ sleeps = [c \in Callers |-> 0]
    /\ success_records = [c \in Callers |-> 0]
    /\ trial = [c \in Callers |-> FALSE]
    /\ streak = [e \in Endpoints |-> 0]
    /\ last_op = NoOp
    /\ upd = [c \in Callers |-> NoUpdate]
    /\ tainted = [e \in Endpoints |-> FALSE]

\* ------------------------------------------------------------------ actions
\* time passes, up to the horizon
Advance(horizon) ==
    /\ now < horizon
    /\ now' = now + 1
    /\ UNCHANGED <<racevars, cfg, circuit_state, callvars, streak, last_op>>

Tick == Advance(MaxTime)

\* _call_httpbin_with_retry, lines 99-121: the breaker check, and either the
\* circuit-open return or the entry into the retry loop
Call(c, e) ==
    LET chk == IsCircuitOpen(circuit_state, e, now) IN
    /\ pc[c] \in {"idle", "returned"}
    /\ circuit_state' = chk.cs
    /\ endpoint' = [endpoint EXCEPT ![c] = e]
    /\ attempt' = [attempt EXCEPT ![c] = 0]
    /\ last_error' = [last_error EXCEPT ![c] = "none"]
    /\ wake_time' = [wake_time EXCEPT ![c] = 0]
    /\ results' = [results EXCEPT ![c] = << >>]
    /\ sleeps' = [sleeps EXCEPT ![c] = 0]
    /\ success_records' = [success_records EXCEPT ![c] = 0]
    /\ trial' = [trial EXCEPT ![c] = (PhaseOf(circuit_state, e) = "open"
                                      /\ ~chk.open)]
    /\ IF chk.open
       THEN /\ vc_log' = [vc_log EXCEPT
                 ![c] = VcStep(<< >>, FailureEvent("circuit_breaker_open", 0))]
            /\ outcome' = [outcome EXCEPT
                 ![c] = LogApiFailure("circuit_breaker_open", 0)]
            /\ pc' = [pc EXCEPT ![c] = "returned"]
       ELSE /\ vc_log' = [vc_log EXCEPT ![c] = << >>]
            /\ outcome' = [outcome EXCEPT ![c] = NoOutcome]
            /\ pc' = [pc EXCEPT ![c] = IF cfg.retry.max_attempts >= 1
                                       THEN "post" ELSE "exhausted"]
    /\ UNCHANGED <<racevars, now, cfg, streak, last_op>>

\* one iteration of the retry loop, lines 124-200: requests.post gives r;
\* a response is recorded with the breaker as a success (line 140) before
\* raise_for_status (line 147) turns an error status into an exception.
Post(c, r) ==
    LET e == endpoint[c]
        a == attempt[c] + 1
        exc == Raised(r)
    IN
    /\ pc[c] = "post"
    /\ attempt' = [attempt EXCEPT ![c] = a]
    /\ results' = [results EXCEPT ![c] = Append(@, r)]
    /\ circuit_state' = AttemptRecord(circuit_state, e, r,
                                       cfg.circuit_breaker, now)
    /\ success_records' = [success_records EXCEPT
                             ![c] = IF r \in Responses THEN @ + 1 ELSE @]
    /\ IF exc = "none"
       THEN /\ vc_log' = [vc_log EXCEPT ![c] = VcStep(@, SuccessEvent(a))]
            /\ outcome' = [outcome EXCEPT ![c] = SuccessResult(a)]
            /\ pc' = [pc EXCEPT ![c] = "returned"]
            /\ streak' = [streak EXCEPT ![e] = 0]
            /\ UNCHANGED <<last_error, wake_time, sleeps>>
       ELSE IF Caught(exc)
       THEN /\ last_error' = [last_error EXCEPT ![c] = exc]
            /\ IF AttemptsLeft(a, cfg.retry)
               THEN /\ \E u \in UniformChoices(a, cfg.retry) :
                         wake_time' = [wake_time EXCEPT
                            ![c] = now + CalculateBackoff(a, cfg.retry, u)]
                    /\ sleeps' = [sleeps EXCEPT ![c] = @ + 1]
                    /\ pc' = [pc EXCEPT ![c] = "sleep"]
               ELSE /\ pc' = [pc EXCEPT ![c] = "exhausted"]
                    /\ UNCHANGED <<wake_time, sleeps>>
            /\ UNCHANGED <<outcome, vc_log, streak>>
       ELSE /\ pc' = [pc EXCEPT ![c] = "raised"]   \* the exception leaves the call
            /\ UNCHANGED <<last_error, wake_time, sleeps, outcome, vc_log, streak>>
    /\ UNCHANGED <<racevars, now, cfg, endpoint, trial, last_op>>

\* time.sleep(delay) at line 200 returns; the loop goes to its next iteration
Wake(c) ==
    /\ pc[c] = "sleep"
    /\ now >= wake_time[c]
    /\ pc' = [pc EXCEPT ![c] = "post"]
    /\ UNCHANGED <<racevars, now, cfg, circuit_state, endpoint, attempt, last_error,
                   wake_time, outcome, vc_log, results, sleeps,
                   success_records, trial, streak, last_op>>

\* lines 202-208: all attempts failed
Exhausted(c) ==
    LET e == endpoint[c] IN
    /\ pc[c] = "exhausted"
    /\ circuit_state' = UpdateCircuitBreaker(circuit_state, e, FALSE,
                                             cfg.circuit_breaker, now)
    /\ vc_log' = [vc_log EXCEPT
                    ![c] = VcStep(@, FailureEvent(Str(last_error[c]), attempt[c]))]
    /\ outcome' = [outcome EXCEPT
                    ![c] = LogApiFailure(Str(last_error[c]), attempt[c])]
    /\ pc' = [pc EXCEPT ![c] = "returned"]
    /\ streak' = [streak EXCEPT
                    ![e] = Min(@ + 1, cfg.circuit_breaker.failure_threshold)]
    /\ UNCHANGED <<racevars, now, cfg, endpoint, attempt, last_error, wake_time,
                   results, sleeps, success_records, trial, last_op>>

\* reset_circuit_breaker(endpoint)
Reset(e) ==
    /\ circuit_state' = ResetCircuitBreaker(circuit_state, e)
    /\ streak' = [streak EXCEPT ![e] = 0]
    /\ UNCHANGED <<racevars, now, cfg, callvars, last_op>>

\* in a sequential run the reset happens between logical calls
SeqReset(e) == ~InFlight(MainCaller) /\ Reset(e)

\* Sequential logical calls: the single-threaded program of main.py, which
\* calls call_external_api without a config_override, so every call goes to
\* the endpoint of the loaded configuration
Next ==
    \/ Tick
    \/ Call(MainCaller, cfg.endpoint)
    \/ \E r \in TransportResults : Post(MainCaller, r)
    \/ Wake(MainCaller)
    \/ Exhausted(MainCaller)
    \/ SeqReset(cfg.endpoint)

Spec == Init /\ [][Next]_vars

\* ------------------------------------------- the breaker functions by themselves
\* _is_circuit_open(endpoint, cb_config) called directly
MayAttempt(e) ==
    /\ circuit_state' = IsCircuitOpen(circuit_state, e, now).cs
    /\ last_op' = [op |-> "may_attempt", endpoint |-> e,
                   prior |-> PhaseOf(circuit_state, e)]
    /\ UNCHANGED <<racevars, now, cfg, callvars, streak>>

\* _update_circuit_breaker(endpoint, success, cb_config) called directly
RecordResult(e, success) ==
    /\ success \/ CountOf(circuit_state, e) < MaxFailureCount
    /\ circuit_state' = UpdateCircuitBreaker(circuit_state, e, success,
                                             cfg.circuit_breaker, now)
    /\ streak' = [streak EXCEPT ![e] = IF success THEN 0 ELSE @ + 1]
    /\ last_op' = [op |-> IF success THEN "record_success" ELSE "record_failure",
                   endpoint |-> e, prior |-> PhaseOf(circuit_state, e),
                   prior_failure_time |-> IF e \in DOMAIN circuit_state
                                          THEN circuit_state[e].last_failure_time
                                          ELSE None]
    /\ UNCHANGED <<racevars, now, cfg, callvars>>

\* reset_circuit_breaker(endpoint) called directly
BreakerReset(e) ==
    /\ circuit_state' = ResetCircuitBreaker(circuit_state, e)
    /\ streak' = [streak EXCEPT ![e] = 0]
    /\ last_op' = [op |-> "reset", endpoint |-> e,
                   prior |-> PhaseOf(circuit_state, e),
                   returned |-> ResetReturns(circuit_state, e)]
    /\ UNCHANGED <<racevars, now, cfg, callvars>>

BreakerTick == Advance(MaxBreakerTime)

NextBreaker ==
    \/ BreakerTick
    \/ \E e \in Endpoints : MayAttempt(e)
    \/ \E e \in Endpoints, s \in BOOLEAN : RecordResult(e, s)
    \/ \E e \in Endpoints : BreakerReset(e)

\* the retry configuration plays no part in the breaker functions
InitBreaker == Init /\ cfg.retry.max_attempts = 1

SpecBreaker == InitBreaker /\ [][NextBreaker]_vars

\* ------------------------------------------------ concurrent logical calls
\* _call_httpbin_with_retry called from several threads against the configured
\* endpoint; _circuit_state is a module global shared by all of them without
\* any lock.  A thread is preempted between the breaker check, each retry-loop
\* iteration and the final failure record.
InitConc ==
    /\ Init
    /\ cfg.retry.max_attempts \in 1 .. MaxConcAttempts
    /\ cfg.retry.max_backoff_seconds = 1
    /\ cfg.circuit_breaker.failure_threshold <= 2
    /\ cfg.circuit_breaker.reset_timeout = 1

ConcTick == Advance(MaxConcTime)

NextConc ==
    \/ ConcTick
    \/ \E c \in Callers : Call(c, cfg.endpoint)
    \/ \E c \in Callers, r \in TransportResults : Post(c, r)
    \/ \E c \in Callers : Wake(c)
    \/ \E c \in Callers : Exhausted(c)

SpecConc == InitConc /\ [][NextConc]_vars

\* ------------------------------------------ logical calls to two endpoints
\* call_external_api with a config_override (lines 36-57) that names another
\* endpoint; the retry and breaker settings are those of the loaded
\* configuration
InitIso ==
    /\ Init
    /\ cfg.retry.max_attempts \in 1 .. MaxIsoAttempts
    /\ cfg.retry.max_backoff_seconds = 1
    /\ cfg.circuit_breaker.failure_threshold <= 2
    /\ cfg.circuit_breaker.reset_timeout = 1

IsoTick == Advance(MaxIsoTime)

NextIso ==
    \/ IsoTick
    \/ \E e \in Endpoints : Call(MainCaller, e)
    \/ \E r \in TransportResults : Post(MainCaller, r)
    \/ Wake(MainCaller)
    \/ Exhausted(MainCaller)
    \/ \E e \in Endpoints : SeqReset(e)

SpecIso == InitIso /\ [][NextIso]_vars

\* ---------------------------- _update_circuit_breaker statement by statement
\* Two threads inside the unsynchronised functions of the breaker. The failure
\* branch of _update_circuit_breaker is taken apart into the steps another
\* thread can come between: the load and the store of
\* state["failure_count"] += 1 (line 390), the test of the phase and the
\* threshold (lines 394-396, 399), and the assignments that open the breaker
\* (lines 397-398, 401-402). The success branch, the breaker check and the
\* reset are taken as one step each.
Updating(c, e) == upd[c].pc # "idle" /\ upd[c].endpoint = e

UpdatingCount(e) == Cardinality({c \in Callers : Updating(c, e)})

\* the largest failure count in the entry of e or in a thread's loaded value
HighestCount(e) ==
    LET loaded == {upd[c].count : c \in {d \in Callers : Updating(d, e)}}
    IN  CHOOSE m \in loaded \cup {CountOf(circuit_state, e)} :
           \A x \in loaded \cup {CountOf(circuit_state, e)} : x <= m

\* the call returns: the thread is outside the function again
UpdateReturns(c, e) ==
    /\ upd' = [upd EXCEPT ![c] = NoUpdate]
    /\ streak' = [streak EXCEPT ![e] = @ + 1]

\* lines 370-381 of a failure record: now = time.time(), the entry is created
\* when missing, state = _circuit_state[endpoint]
FailBegin(c, e) ==
    /\ upd[c].pc = "idle"
    /\ streak[e] + UpdatingCount(e) < MaxRaceCount
    /\ HighestCount(e) + UpdatingCount(e) < MaxRaceCount
    /\ circuit_state' = IF e \in DOMAIN circuit_state
                        THEN circuit_state ELSE Put(circuit_state, e, NewState)
    /\ upd' = [upd EXCEPT ![c] = [pc |-> "load", endpoint |-> e, t |-> now,
                                  count |-> 0]]
    /\ UNCHANGED <<now, cfg, callvars, streak, last_op, tainted>>

\* line 390, first half: the value of state["failure_count"] is loaded
FailLoad(c) ==
    /\ upd[c].pc = "load"
    /\ upd' = [upd EXCEPT ![c].pc = "store",
                          ![c].count = circuit_state[upd[c].endpoint].failure_count]
    /\ UNCHANGED <<now, cfg, circuit_state, callvars, streak, last_op, tainted>>

\* line 390, second half, and line 391: the loaded value plus one is stored
FailStore(c) ==
    LET e == upd[c].endpoint IN
    /\ upd[c].pc = "store"
    /\ circuit_state' = Put(circuit_state, e,
                            [circuit_state[e] EXCEPT
                                !.failure_count = upd[c].count + 1,
                                !.last_failure_time = upd[c].t])
    /\ upd' = [upd EXCEPT ![c].pc = "test"]
    /\ UNCHANGED <<now, cfg, callvars, streak, last_op, tainted>>

\* lines 394-396 and 399: the tests that decide whether the breaker opens
FailTest(c) ==
    LET e == upd[c].endpoint
        st == circuit_state[e]
    IN
    /\ upd[c].pc = "test"
    /\ IF \/ st.state = "closed"
             /\ ThresholdReached(st.failure_count, cfg.circuit_breaker)
          \/ st.state = "half_open"
       THEN /\ upd' = [upd EXCEPT ![c].pc = "open"]
            /\ UNCHANGED streak
       ELSE UpdateReturns(c, e)
    /\ UNCHANGED <<now, cfg, circuit_state, callvars, last_op, tainted>>

\* lines 397-398 or 401-402: the breaker is opened
FailOpen(c) ==
    LET e == upd[c].endpoint IN
    /\ upd[c].pc = "open"
    /\ circuit_state' = Put(circuit_state, e,
                            [circuit_state[e] EXCEPT
                                !.state = "open",
                                !.next_attempt_time =
                                    upd[c].t + cfg.circuit_breaker.reset_timeout])
    /\ UpdateReturns(c, e)
    /\ UNCHANGED <<now, cfg, callvars, last_op, tainted>>

\* _update_circuit_breaker(endpoint, True, cb_config), lines 370-387
SuccessRecord(c, e) ==
    /\ upd[c].pc = "idle"
    /\ circuit_state' = UpdateCircuitBreaker(circuit_state, e, TRUE,
                                             cfg.circuit_breaker, now)
    /\ streak' = [streak EXCEPT ![e] = 0]
    /\ tainted' = [tainted EXCEPT ![e] = UpdatingCount(e) > 0]
    /\ UNCHANGED <<now, cfg, callvars, last_op, upd>>

\* reset_circuit_breaker(endpoint) by a thread outside _update_circuit_breaker
RaceReset(c, e) ==
    /\ upd[c].pc = "idle"
    /\ circuit_state' = ResetCircuitBreaker(circuit_state, e)
    /\ streak' = [streak EXCEPT ![e] = 0]
    /\ tainted' = [tainted EXCEPT ![e] = UpdatingCount(e) > 0]
    /\ UNCHANGED <<now, cfg, callvars, last_op, upd>>

\* _is_circuit_open(endpoint, cb_config) by a thread outside
\* _update_circuit_breaker
RaceCheck(c, e) ==
    /\ upd[c].pc = "idle"
    /\ circuit_state' = IsCircuitOpen(circuit_state, e, now).cs
    /\ UNCHANGED <<now, cfg, callvars, streak, last_op, racevars>>

RaceTick == Advance(MaxRaceTime)

InitRace ==
    /\ Init
    /\ cfg.retry.max_attempts = 1
    /\ cfg.retry.max_backoff_seconds = 1
    /\ cfg.circuit_breaker.failure_threshold <= 2
    /\ cfg.circuit_breaker.reset_timeout = 1

NextRace ==
    \/ RaceTick
    \/ \E c \in Callers : FailBegin(c, cfg.endpoint)
    \/ \E c \in Callers : FailLoad(c)
    \/ \E c \in Callers : FailStore(c)
    \/ \E c \in Callers : FailTest(c)
    \/ \E c \in Callers : FailOpen(c)
    \/ \E c \in Callers : SuccessRecord(c, cfg.endpoint)
    \/ \E c \in Callers : RaceReset(c, cfg.endpoint)
    \/ \E c \in Callers : RaceCheck(c, cfg.endpoint)

SpecRace == InitRace /\ [][NextRace]_vars

\* ------------------------------------------- termination of a logical call
\* time does not stop while a call is waiting: the clock runs to MaxLiveTime
\* and beyond it as far as the wake-up time of a sleeping call
LiveHorizon ==
    IF pc[MainCaller] = "sleep"
    THEN Max(MaxLiveTime, wake_time[MainCaller]) ELSE MaxLiveTime

LiveTick == Advance(LiveHorizon)

\* logical calls start within the first MaxLiveTime units of time
LiveCall(c, e) == now <= MaxLiveTime /\ Call(c, e)

NextLive ==
    \/ LiveTick
    \/ LiveCall(MainCaller, cfg.endpoint)
    \/ \E r \in TransportResults : Post(MainCaller, r)
    \/ Wake(MainCaller)
    \/ Exhausted(MainCaller)

\* every Transport invocation returns, every wait ends (time passes), and
\* the thread of the call keeps running
Fairness ==
    /\ WF_vars(LiveTick)
    /\ WF_vars(\E r \in TransportResults : Post(MainCaller, r))
    /\ WF_vars(Wake(MainCaller))
    /\ WF_vars(Exhausted(MainCaller))

SpecLive == Init /\ [][NextLive]_vars /\ Fairness

\* -------------------------------------------- the backoff function by itself
\* retry configurations for _calculate_backoff: the defaults of config.py
\* (2 s, 60 s, 10 %) and values around them; jitter is held in percent and is
\* not validated, so it may exceed 100
BackoffSecondsChoices == {1, 2}
MaxBackoffSecondsChoices == {2, 60}
JitterChoices == {0, 10, 100, 150}

InitBackoff ==
    /\ now = 0
    /\ cfg \in [endpoint : {DefaultEndpoint},
                retry : [max_attempts : {MaxBackoffAttempt + 1},
                         backoff_seconds : BackoffSecondsChoices,
                         max_backoff_seconds : MaxBackoffSecondsChoices,
                         jitter : JitterChoices],
                circuit_breaker : [failure_threshold : {1}, failure_window : {1},
                                   reset_timeout : {1}]]
    /\ circuit_state = << >>
    /\ pc = [c \in Callers |-> "idle"]
    /\ endpoint = [c \in Callers |-> "E1"]
    /\ attempt = [c \in Callers |-> 0]
    /\ last_error = [c \in Callers |-> "none"]
    /\ wake_time = [c \in Callers |-> 0]
    /\ outcome = [c \in Callers |-> NoOutcome]
    /\ vc_log = [c \in Callers |-> << >>]
    /\ results = [c \in Callers |-> << >>]
    /\ sleeps = [c \in Callers |-> 0]
    /\ success_records = [c \in Callers |-> 0]
    /\ trial = [c \in Callers |-> FALSE]
    /\ streak = [e \in Endpoints |-> 0]
    /\ last_op = NoOp
    /\ upd = [c \in Callers |-> NoUpdate]
    /\ tainted = [e \in Endpoints |-> FALSE]

\* _calculate_backoff(attempt, retry_config) called directly; u is the value
\* random.uniform draws
Backoff(att, u) ==
    /\ last_op' = [op |-> "calculate_backoff", attempt |-> att, drawn |-> u,
                   result |-> CalculateBackoff(att, cfg.retry, u)]
    /\ UNCHANGED <<racevars, now, cfg, circuit_state, callvars, streak>>

NextBackoff ==
    \E att \in 1 .. cfg.retry.max_attempts - 1 :
       \E u \in UniformChoices(att, cfg.retry) : Backoff(att, u)

SpecBackoff == InitBackoff /\ [][NextBackoff]_vars

TypeOK ==
    /\ now \in Nat
    /\ \A c \in Callers :
          pc[c] \in {"idle", "post", "sleep", "exhausted", "returned", "raised"}

\* ------------------------------------------------------------------- claims
CircuitOpenOutcome ==
    [success |-> FALSE, attempts |-> 0, error |-> "circuit_breaker_open"]

\* the breaker of e is in its cooldown at the present time
Cooling(e) ==
    /\ PhaseOf(circuit_state, e) = "open"
    /\ now < circuit_state[e].next_attempt_time

\* C1: a logical call that starts while the endpoint's breaker is Open and
\* now < next_attempt_time returns {success: false, attempts_used: 0,
\* error_reason: "circuit_breaker_open"} at once, with no Transport invocation.
C1_OpenCallShortCircuits ==
    [][\A c \in Callers, e \in Endpoints :
          (Call(c, e) /\ Cooling(e))
             => /\ pc'[c] = "returned"
                /\ outcome'[c] = CircuitOpenOutcome
                /\ TransportCalls(c)' = 0
                /\ circuit_state' = circuit_state]_vars

C1_Witness ==
    /\ pc[MainCaller] = "returned"
    /\ outcome[MainCaller] = CircuitOpenOutcome
    /\ Cooling(endpoint[MainCaller])
    /\ TransportCalls(MainCaller) = 0

\* C2: after failure_threshold consecutive logical calls to E in each of which
\* every attempt failed, whatever the failure kind, the breaker of E is Open.
C2_ThresholdFailedCallsOpen ==
    \A e \in Endpoints :
       (/\ streak[e] >= cfg.circuit_breaker.failure_threshold
        /\ \A c \in Callers : ~(InFlight(c) /\ endpoint[c] = e))
          => PhaseOf(circuit_state, e) = "open"

\* C3: the breaker goes Closed -> Open exactly at the recorded failure that
\* makes failure_count reach failure_threshold; it is Closed only while
\* failure_count < failure_threshold, and a recorded success puts the count
\* back to 0.
C3_TripsExactlyAtThreshold ==
    [][\A e \in Endpoints :
          LET ph  == PhaseOf(circuit_state, e)
              fc  == CountOf(circuit_state, e)
              ph1 == PhaseOf(circuit_state', e)
              fc1 == CountOf(circuit_state', e)
              th  == cfg.circuit_breaker.failure_threshold
          IN  /\ (ph \in {"absent", "closed"} /\ ph1 = "open")
                    => (fc1 = fc + 1 /\ fc1 = th)
              /\ (ph \in {"absent", "closed"} /\ fc1 = fc + 1 /\ fc1 >= th)
                    => ph1 = "open"
              /\ ph1 = "closed" => fc1 < th
              /\ (\E c \in Callers :
                     /\ endpoint[c] = e
                     /\ success_records'[c] = success_records[c] + 1)
                    => fc1 = 0]_vars

C3_Witness ==
    \E e \in Endpoints :
       /\ PhaseOf(circuit_state, e) = "open"
       /\ cfg.circuit_breaker.failure_threshold >= 2
       /\ circuit_state[e].failure_count = cfg.circuit_breaker.failure_threshold
       /\ pc[MainCaller] = "returned"
       /\ endpoint[MainCaller] = e
       /\ ~trial[MainCaller]
       /\ ~outcome[MainCaller].success
       /\ outcome[MainCaller] # CircuitOpenOutcome

\* C4: a logical call made while the phase is Open and now >= next_attempt_time
\* (the instant now = next_attempt_time included) is admitted: the phase is
\* HalfOpen before the first Transport invocation; if the first attempt then
\* succeeds the call returns {success: true, attempts_used: 1} and leaves the
\* phase Closed with failure_count = 0.
C4_TrialAdmittedAndCloses ==
    [][\A c \in Callers, e \in Endpoints :
          /\ (/\ Call(c, e)
              /\ PhaseOf(circuit_state, e) = "open"
              /\ now >= circuit_state[e].next_attempt_time)
                => /\ pc'[c] # "returned"
                   /\ TransportCalls(c)' = 0
                   /\ PhaseOf(circuit_state', e) = "half_open"
          /\ (/\ Post(c, "ok")
              /\ trial[c]
              /\ endpoint[c] = e
              /\ TransportCalls(c) = 0)
                => /\ pc'[c] = "returned"
                   /\ outcome'[c] = [success |-> TRUE, total_attempts |-> 1]
                   /\ PhaseOf(circuit_state', e) = "closed"
                   /\ CountOf(circuit_state', e) = 0]_vars

C4_Witness ==
    /\ pc[MainCaller] = "returned"
    /\ trial[MainCaller]
    /\ outcome[MainCaller] = [success |-> TRUE, total_attempts |-> 1]
    /\ PhaseOf(circuit_state, endpoint[MainCaller]) = "closed"
    /\ circuit_state[endpoint[MainCaller]].last_failure_time
          = circuit_state[endpoint[MainCaller]].next_attempt_time

\* C5: when the logical call admitted as the HalfOpen trial returns a failure
\* outcome, whatever the failure kind, the phase is Open again and
\* next_attempt_time is the time of the failure record plus reset_timeout.
C5_FailedTrialReopens ==
    [][\A c \in Callers :
          (Exhausted(c) /\ trial[c])
             => /\ PhaseOf(circuit_state', endpoint[c]) = "open"
                /\ circuit_state'[endpoint[c]].next_attempt_time
                      = now + cfg.circuit_breaker.reset_timeout]_vars

\* C6: the breaker records a success only for the attempt that produces the
\* call's success outcome: a logical call that returns a failure outcome has
\* recorded no success (never closed the breaker, never zeroed failure_count).
C6_FailedCallRecordsNoSuccess ==
    \A c \in Callers :
       (pc[c] = "returned" /\ ~outcome[c].success) => success_records[c] = 0

\* C7: record_result(endpoint, success = true) leaves phase = Closed and
\* failure_count = 0 from every prior phase and count, and creates the state
\* as Closed/0 when the endpoint had none.
C7_SuccessAlwaysCloses ==
    [][\A e \in Endpoints :
          RecordResult(e, TRUE)
             => /\ PhaseOf(circuit_state', e) = "closed"
                /\ CountOf(circuit_state', e) = 0
                /\ e \notin DOMAIN circuit_state
                      => circuit_state'[e] =
                            [state |-> "closed", failure_count |-> 0,
                             last_failure_time |-> None,
                             next_attempt_time |-> None]]_vars

C7_Witness ==
    /\ last_op.op = "record_success"
    /\ last_op.prior = "open"
    /\ PhaseOf(circuit_state, last_op.endpoint) = "closed"
    /\ circuit_state[last_op.endpoint].failure_count = 0

\* C8: for an admitted logical call with max_attempts >= 1: if every attempt
\* failed, the outcome is a failure with attempts_used = max_attempts and the
\* error of the last attempt; otherwise it is a success with attempts_used the
\* 1-based index of the first attempt that succeeded.
C8_AttemptsUsed ==
    \A c \in Callers :
       (/\ pc[c] = "returned"
        /\ cfg.retry.max_attempts >= 1
        /\ outcome[c] # CircuitOpenOutcome)
          => LET rs == results[c]
                 oks == {i \in 1 .. Len(rs) : rs[i] = "ok"}
             IN  IF oks = {}
                 THEN /\ Len(rs) = cfg.retry.max_attempts
                      /\ outcome[c] = [success |-> FALSE,
                                       attempts |-> cfg.retry.max_attempts,
                                       error |-> rs[Len(rs)]]
                 ELSE /\ \A i \in oks : i = Len(rs)
                      /\ outcome[c] = [success |-> TRUE,
                                       total_attempts |-> Len(rs)]

C8_Witness ==
    /\ pc[MainCaller] = "returned"
    /\ Len(results[MainCaller]) = 2
    /\ results[MainCaller][1] = "http_error"
    /\ results[MainCaller][2] = "ok"
    /\ outcome[MainCaller] = [success |-> TRUE, total_attempts |-> 2]

\* C9: every logical call emits exactly one terminal event, whichever way it
\* ends (circuit open, success, retries exhausted); attempts that fail and are
\* retried emit none.
C9_OneTerminalEvent ==
    \A c \in Callers :
       /\ InFlight(c) => Len(vc_log[c]) = 0
       /\ pc[c] = "returned"
             => /\ Len(vc_log[c]) = 1
                /\ vc_log[c][1].success = outcome[c].success
                /\ vc_log[c][1].attempts = Len(results[c])

C9_Witness ==
    /\ pc[MainCaller] = "returned"
    /\ ~outcome[MainCaller].success
    /\ Len(results[MainCaller]) = 2
    /\ sleeps[MainCaller] = 1
    /\ Len(vc_log[MainCaller]) = 1

\* C10: no Transport failure of any kind leaves a logical call as an
\* exception: the call returns an outcome, and the outcome carries an error
\* reason if and only if success is false.
C10_FailuresAreReturned ==
    \A c \in Callers :
       /\ pc[c] # "raised"
       /\ pc[c] = "returned"
             => ("error" \in DOMAIN outcome[c] <=> ~outcome[c].success)

C10_Witness ==
    /\ pc[MainCaller] = "returned"
    /\ results[MainCaller] = <<"timeout", "conn_error">>
    /\ outcome[MainCaller] = [success |-> FALSE, attempts |-> 2,
                              error |-> "conn_error"]

\* C11: a retry configuration with max_attempts < 1 is rejected when it is
\* constructed, so no logical call ever runs with max_attempts < 1.
C11_NoCallBelowOneAttempt ==
    \A c \in Callers : pc[c] # "idle" => cfg.retry.max_attempts >= 1

\* C12: in every reachable breaker state, phase = Closed implies
\* next_attempt_time is unset.
C12_ClosedHasNoDeadline ==
    \A e \in DOMAIN circuit_state :
       circuit_state[e].state = "closed"
          => circuit_state[e].next_attempt_time = None

\* C13: in every reachable breaker state, phase = Open implies
\* next_attempt_time is set, and it is the time of the record_result that most
\* recently opened the breaker plus reset_timeout: a step into Open sets it to
\* now + reset_timeout and a step that stays in Open leaves it alone.
C13_OpenDeadline ==
    [][\A e \in Endpoints :
          LET ph  == PhaseOf(circuit_state, e)
              ph1 == PhaseOf(circuit_state', e)
          IN  /\ (ph # "open" /\ ph1 = "open")
                    => /\ circuit_state'[e].next_attempt_time
                             = now + cfg.circuit_breaker.reset_timeout
                       /\ circuit_state'[e].next_attempt_time > now
              /\ (ph = "open" /\ ph1 = "open")
                    => circuit_state'[e].next_attempt_time
                          = circuit_state[e].next_attempt_time
              /\ ph1 = "open" => circuit_state'[e].next_attempt_time # None]_vars

\* the breaker was reopened by a failure recorded in the half-open phase
C13_Witness ==
    /\ last_op.op = "record_failure"
    /\ last_op.prior = "half_open"
    /\ PhaseOf(circuit_state, last_op.endpoint) = "open"
    /\ circuit_state[last_op.endpoint].next_attempt_time
          = now + cfg.circuit_breaker.reset_timeout
    /\ now > 0

\* C14: for every attempt in 1..max_attempts-1 and every value the random
\* source can produce, delay_for(attempt) lies in
\* [max(0, capped*(1 - jitter)), capped*(1 + jitter)] with
\* capped = min(base_delay * 2^(attempt-1), max_delay), and is never negative.
C14_BackoffWithinJitterBand ==
    last_op.op = "calculate_backoff"
       => LET r == cfg.retry
              capped == Min(r.backoff_seconds * Pow2(last_op.attempt - 1),
                            r.max_backoff_seconds)
          IN  /\ last_op.result >= 0
              /\ 100 * last_op.result >= Max(0, capped * (100 - r.jitter))
              /\ 100 * last_op.result <= capped * (100 + r.jitter)

\* a capped delay (2 * 2^5 = 64 > 60) perturbed downwards by the jitter
C14_Witness ==
    /\ last_op.op = "calculate_backoff"
    /\ last_op.attempt = 6
    /\ cfg.retry.backoff_seconds = 2
    /\ cfg.retry.max_backoff_seconds = 60
    /\ cfg.retry.jitter = 10
    /\ last_op.result = 54

\* C15: with jitter_fraction = 0, within one logical call the wait inserted
\* between failed attempt k and attempt k+1 is exactly
\* min(base_delay * 2^(k-1), max_delay), for every k in 1..max_attempts-1.
C15_ExactWaitWithoutJitter ==
    [][\A c \in Callers :
          (pc[c] = "post" /\ pc'[c] = "sleep" /\ cfg.retry.jitter = 0)
             => LET k == attempt'[c]
                    raw == cfg.retry.backoff_seconds * Pow2(k - 1)
                IN  /\ k = attempt[c] + 1
                    /\ k \in 1 .. cfg.retry.max_attempts - 1
                    /\ wake_time'[c] - now =
                          (IF raw <= cfg.retry.max_backoff_seconds
                           THEN raw ELSE cfg.retry.max_backoff_seconds)]_vars

\* the wait after the second failed attempt, cut from 2 down to a maximum of 1
C15_Witness ==
    /\ pc[MainCaller] = "sleep"
    /\ attempt[MainCaller] = 2
    /\ cfg.retry.max_backoff_seconds = 1
    /\ wake_time[MainCaller] = now + 1

\* C16: under any interleaving of concurrent logical calls to one endpoint the
\* HalfOpen phase admits at most one trial: while the phase is HalfOpen no
\* further call passes the breaker check and goes on to the Transport.
C16_SingleHalfOpenTrial ==
    [][\A c \in Callers, e \in Endpoints :
          (Call(c, e) /\ PhaseOf(circuit_state, e) = "half_open")
             => pc'[c] # "post"]_vars

\* C17: under any interleaving of concurrent logical calls to one endpoint, no
\* Transport invocation for the endpoint begins while its phase is Open and
\* now < next_attempt_time.
C17_NoTransportWhileCooling ==
    [][\A c \in Callers :
          (pc[c] = "post" /\ Len(results'[c]) = Len(results[c]) + 1)
             => ~Cooling(endpoint[c])]_vars
\* C18: reset(endpoint) on an endpoint that has state forces phase = Closed
\* and failure_count = 0 from any phase, so that the next call to that endpoint
\* is admitted whatever the current time, and reports that state was reset; on
\* an endpoint with no state it creates nothing and reports that nothing was
\* reset.
C18_ResetForcesClosed ==
    [][\A e \in Endpoints :
          BreakerReset(e) =>
              IF e \in DOMAIN circuit_state
              THEN /\ PhaseOf(circuit_state', e) = "closed"
                   /\ CountOf(circuit_state', e) = 0
                   /\ \A t \in 0 .. MaxTime :
                          ~IsCircuitOpen(circuit_state', e, t).open
                   /\ last_op'.returned
              ELSE /\ circuit_state' = circuit_state
                   /\ e \notin DOMAIN circuit_state'
                   /\ ~last_op'.returned]_vars

\* a reset has just closed a breaker that was Open, before its deadline
C18_Witness ==
    /\ last_op.op = "reset"
    /\ last_op.prior = "open"
    /\ last_op.returned
    /\ PhaseOf(circuit_state, last_op.endpoint) = "closed"
    /\ CountOf(circuit_state, last_op.endpoint) = 0
    /\ now < circuit_state[last_op.endpoint].next_attempt_time

\* C19: breaker state for an endpoint is absent before any logical call to
\* that endpoint, is present once a logical call to that endpoint has returned
\* with any outcome, and once present is never removed by any operation.
C19_StatePresence ==
    /\ DOMAIN circuit_state = {}
    /\ [][/\ DOMAIN circuit_state \subseteq DOMAIN circuit_state'
          /\ \A e \in Endpoints :
                (e \notin DOMAIN circuit_state /\ e \in DOMAIN circuit_state')
                    => \E c \in Callers : InFlight(c) /\ endpoint[c] = e
          /\ \A c \in Callers :
                (pc[c] # "returned" /\ pc'[c] = "returned")
                    => endpoint'[c] \in DOMAIN circuit_state']_vars

\* a call with no attempt to make has returned and left state behind, and a
\* reset since then has not removed it
C19_Witness ==
    /\ pc[MainCaller] = "returned"
    /\ ~outcome[MainCaller].success
    /\ outcome[MainCaller].attempts = 0
    /\ outcome[MainCaller].error # "circuit_breaker_open"
    /\ endpoint[MainCaller] \in DOMAIN circuit_state
    /\ CountOf(circuit_state, endpoint[MainCaller]) = 0

C21_NoDecayByTime ==
    [][/\ (BreakerTick \/ \E e \in Endpoints : MayAttempt(e))
            => \A e \in Endpoints :
                  CountOf(circuit_state', e) = CountOf(circuit_state, e)
       /\ \A e \in Endpoints :
             streak'[e] >= cfg.circuit_breaker.failure_threshold
                => PhaseOf(circuit_state', e) \in {"open", "half_open"}]_vars

\* the failure that tripped the breaker came more than failure_window after
\* the failure before it
C21_Witness ==
    /\ last_op.op = "record_failure"
    /\ last_op.prior = "closed"
    /\ last_op.prior_failure_time # None
    /\ PhaseOf(circuit_state, last_op.endpoint) = "open"
    /\ cfg.circuit_breaker.failure_threshold >= 2
    /\ streak[last_op.endpoint] = cfg.circuit_breaker.failure_threshold
    /\ now - last_op.prior_failure_time > cfg.circuit_breaker.failure_window

\* the attempts of c's call so far all failed with a timeout or a
\* transport-level error
TransportFailuresOnly(c) ==
    \A i \in 1 .. Len(results[c]) : results[c][i] \in {"timeout", "conn_error"}

\* C22: the breaker records failures per logical call, not per attempt: in a
\* call whose max_attempts attempts all fail with a timeout or a
\* transport-level error, the failed attempts and the waits between them leave
\* the breaker state unchanged, and the one record_result(false) after the
\* last attempt makes failure_count grow by exactly 1.
C22_OneFailureRecordPerCall ==
    [][\A c \in Callers :
          /\ (\E r \in {"timeout", "conn_error"} : Post(c, r))
                => circuit_state' = circuit_state
          /\ Wake(c) => circuit_state' = circuit_state
          /\ (Exhausted(c) /\ TransportFailuresOnly(c))
                => /\ Len(results[c]) = Max(cfg.retry.max_attempts, 0)
                   /\ CountOf(circuit_state', endpoint[c])
                         = CountOf(circuit_state, endpoint[c]) + 1
                   /\ pc'[c] = "returned"]_vars

\* three attempts failed at the transport, and the endpoint's first failure
\* record stands at 1
C22_Witness ==
    /\ pc[MainCaller] = "returned"
    /\ cfg.retry.max_attempts = 3
    /\ Len(results[MainCaller]) = 3
    /\ TransportFailuresOnly(MainCaller)
    /\ ~outcome[MainCaller].success
    /\ CountOf(circuit_state, endpoint[MainCaller]) = 1
    /\ circuit_state[endpoint[MainCaller]].last_failure_time = now

\* attempts_used of the outcome c's call returned
AttemptsUsed(c) ==
    IF outcome[c].success THEN outcome[c].total_attempts ELSE outcome[c].attempts

\* C23 as stated: in every returned call the number of Transport invocations
\* equals attempts_used and does not exceed max_attempts, and the number of
\* backoff waits is attempts_used - 1.
C23_WaitsAreAttemptsMinusOne ==
    \A c \in Callers :
       pc[c] = "returned"
          => /\ TransportCalls(c) = AttemptsUsed(c)
             /\ TransportCalls(c) <= Max(cfg.retry.max_attempts, 0)
             /\ sleeps[c] = AttemptsUsed(c) - 1

\* C23 amended: within one logical call the attempts are strictly sequential
\* (an attempt is made only by a call that is not waiting), the number of
\* Transport invocations equals attempts_used and never exceeds max_attempts,
\* a wait happens only after a failed attempt that is not the last one, and a
\* call that made at least one attempt waited attempts_used - 1 times; a call
\* that made no attempt did not wait.
C23_AttemptsAndWaits ==
    /\ [](\A c \in Callers :
            /\ TransportCalls(c) = attempt[c]
            /\ TransportCalls(c) <= Max(cfg.retry.max_attempts, 0)
            /\ pc[c] = "returned"
                  => /\ TransportCalls(c) = AttemptsUsed(c)
                     /\ sleeps[c] = IF AttemptsUsed(c) >= 1
                                    THEN AttemptsUsed(c) - 1 ELSE 0)
    /\ [][\A c \in Callers :
            /\ TransportCalls(c)' > TransportCalls(c) => pc[c] = "post"
            /\ sleeps'[c] > sleeps[c]
                  => /\ TransportCalls(c)' = TransportCalls(c) + 1
                     /\ Raised(results'[c][Len(results'[c])]) # "none"
                     /\ TransportCalls(c)' < cfg.retry.max_attempts
                     /\ pc'[c] = "sleep"]_vars

\* a call succeeded at its third attempt after two waits
C23_Witness ==
    /\ pc[MainCaller] = "returned"
    /\ outcome[MainCaller].success
    /\ AttemptsUsed(MainCaller) = 3
    /\ TransportCalls(MainCaller) = 3
    /\ sleeps[MainCaller] = 2

\* c's call has returned one of the three terminal outcomes
TerminalOutcome(c) ==
    /\ pc[c] = "returned"
    /\ TransportCalls(c) <= Max(cfg.retry.max_attempts, 0)
    /\ \/ outcome[c] = CircuitOpenOutcome
       \/ outcome[c].success
       \/ /\ ~outcome[c].success
          /\ outcome[c].error \in {"None", "timeout", "conn_error", "http_error"}
          /\ outcome[c].attempts = Max(cfg.retry.max_attempts, 0)

\* C24: every logical call terminates: provided each Transport invocation
\* returns and each backoff wait ends, a call in flight eventually returns one
\* of the three terminal outcomes (circuit open, success, exhausted retries),
\* after at most max_attempts Transport invocations.
C24_CallTerminates ==
    \A c \in Callers : InFlight(c) ~> TerminalOutcome(c)

\* a call that waited twice has returned with its retries exhausted
C24_Witness ==
    /\ TerminalOutcome(MainCaller)
    /\ ~outcome[MainCaller].success
    /\ outcome[MainCaller].attempts = 3
    /\ sleeps[MainCaller] = 2

\* C25: record_result(endpoint, false, now) while the phase is HalfOpen changes
\* the phase to Open and next_attempt_time to now + reset_timeout and leaves
\* failure_count unchanged.
C25_HalfOpenFailureKeepsCount ==
    [][\A e \in Endpoints :
          (RecordResult(e, FALSE) /\ PhaseOf(circuit_state, e) = "half_open")
             => /\ PhaseOf(circuit_state', e) = "open"
                /\ circuit_state'[e].next_attempt_time
                      = now + cfg.circuit_breaker.reset_timeout
                /\ CountOf(circuit_state', e) = CountOf(circuit_state, e)]_vars

\* C26: may_attempt changes nothing but the phase, and only on the
\* Open -> HalfOpen transition: every other check leaves the whole breaker
\* state unchanged, and the admitting check on Open leaves failure_count,
\* last_failure_time and next_attempt_time unchanged.
C26_CheckChangesPhaseOnly ==
    [][\A e \in Endpoints :
          MayAttempt(e)
             => \/ circuit_state' = circuit_state
                \/ /\ PhaseOf(circuit_state, e) = "open"
                   /\ now >= circuit_state[e].next_attempt_time
                   /\ circuit_state'
                         = Put(circuit_state, e,
                               [circuit_state[e] EXCEPT !.state = "half_open"])]_vars

\* the breaker entry of e, or a marker when there is none
EntryOf(cs, e) == IF e \in DOMAIN cs THEN cs[e] ELSE [state |-> "absent"]

\* the step is an operation on endpoint e: the start of a logical call to e
\* (with its breaker check), an attempt or the final failure record of a call
\* to e, or a reset of e
OperationOn(e) ==
    \/ \E c \in Callers : Call(c, e)
    \/ \E c \in Callers :
          /\ endpoint[c] = e
          /\ (\E r \in TransportResults : Post(c, r)) \/ Wake(c) \/ Exhausted(c)
    \/ Reset(e)

\* C27: breaker state is isolated per endpoint: every operation on an
\* endpoint E leaves the state of every other endpoint E' unchanged (the
\* state of E' changes only in operations on E'), so a call to E' is rejected
\* only after failed calls to E' itself.
C27_EndpointIsolation ==
    [][\A e \in Endpoints :
          /\ EntryOf(circuit_state', e) # EntryOf(circuit_state, e)
                => OperationOn(e)
          /\ OperationOn(e)
                => \A o \in Endpoints \ {e} :
                      EntryOf(circuit_state', o) = EntryOf(circuit_state, o)
          /\ \A c \in Callers :
                (Call(c, e) /\ outcome'[c] = CircuitOpenOutcome)
                   => streak[e] >= 1]_vars

\* while the breaker of E1 is open and cooling, a call to E2 has succeeded
C27_Witness ==
    /\ Cooling("E1")
    /\ endpoint[MainCaller] = "E2"
    /\ pc[MainCaller] = "returned"
    /\ outcome[MainCaller].success
    /\ PhaseOf(circuit_state, "E2") = "closed"

\* C28: with a fixed breaker configuration, in every reachable state, after
\* any sequence, sequential or interleaved, of logical calls and resets:
\* phase in {Open, HalfOpen} implies failure_count >= failure_threshold, and
\* failure_count >= 0 always.
C28_OpenImpliesThreshold ==
    \A e \in DOMAIN circuit_state :
       /\ circuit_state[e].failure_count >= 0
       /\ circuit_state[e].state \in {"open", "half_open"}
             => circuit_state[e].failure_count >= cfg.circuit_breaker.failure_threshold

\* C29: phase transitions follow the breaker state machine in every step:
\* HalfOpen is entered only from Open and only by a may_attempt check with
\* now >= next_attempt_time; Open is entered only by a recorded failure (from
\* Closed when failure_count reaches the threshold, or from HalfOpen); the
\* phase never goes from Closed directly to HalfOpen.
C29_PhaseTransitions ==
    [][\A e \in Endpoints :
          LET from == PhaseOf(circuit_state, e)
              to == PhaseOf(circuit_state', e)
          IN  /\ (to = "half_open" /\ from # "half_open")
                    => /\ from = "open"
                       /\ MayAttempt(e)
                       /\ now >= circuit_state[e].next_attempt_time
              /\ (to = "open" /\ from # "open")
                    => /\ RecordResult(e, FALSE)
                       /\ \/ /\ from \in {"absent", "closed"}
                             /\ CountOf(circuit_state', e)
                                   = cfg.circuit_breaker.failure_threshold
                          \/ from = "half_open"
              /\ ~(from = "closed" /\ to = "half_open")]_vars

\* the breaker has gone round Open -> HalfOpen -> Open -> HalfOpen
C29_Witness ==
    /\ last_op.op = "may_attempt"
    /\ last_op.prior = "open"
    /\ PhaseOf(circuit_state, last_op.endpoint) = "half_open"
    /\ CountOf(circuit_state, last_op.endpoint)
          = cfg.circuit_breaker.failure_threshold + 1

\* C30: under concurrent records to the same endpoint no failure record is
\* lost: once the records have returned, failure_count is the number of
\* failures recorded since the last success or reset (two failures make it
\* 2 higher), for every interleaving of the load, add and store of
\* record_result, leaving aside records that a success or reset interrupted.
C30_NoLostFailureRecord ==
    \A e \in Endpoints :
       (UpdatingCount(e) = 0 /\ ~tainted[e])
          => CountOf(circuit_state, e) = streak[e]

====
